---- MODULE Spec2Model ----
(***************************************************************************)
(* LocalGrid (src/src/localgrid/core.py): offline token counting and       *)
(* context-window lookup for locally hosted models.                        *)
(*                                                                         *)
(* Python strings are modelled as sequences of one-character strings so    *)
(* that `':' in s`, `s.split(':', 1)`, `a in b`, `.upper()`,               *)
(* `.replace('K', '')` and `int(s)` are computed, not assumed.             *)
(***************************************************************************)
EXTENDS Integers, Sequences, FiniteSets, TLC

VARIABLES
    db,          \* self._db: sequence of provider mappings, in dict order
    scanOrder,   \* iteration order of the set TOKENIZER_MAP in this process
    defaultTok,  \* self._default_tokenizer (tiktoken encoding, or None)
    cache,       \* self._tokenizer_cache: family -> loaded tokenizer
    loaded,      \* family -> number of from_pretrained calls that returned
    op,          \* last public operation: "init", "count", "limit"
    arg,         \* model_name of the last call
    txt,         \* text of the last count_tokens call
    ret,         \* value returned by the last call
    resolved,    \* tokenizer _get_tokenizer returned in the last count call
    events,      \* what the last call touched (store, detection, disk, ...)
    pc,          \* per thread: position inside count_tokens
    tname,       \* per thread: model_name argument
    ttext,       \* per thread: text argument
    tfam,        \* per thread: tokenizer_dir_name
    ttok,        \* per thread: local `tokenizer`
    tret,        \* per thread: value returned by its last call
    writes       \* family -> number of cache assignments performed

vars == <<db, scanOrder, defaultTok, cache, loaded, op, arg, txt, ret,
          resolved, events, pc, tname, ttext, tfam, ttok, tret, writes>>

----------------------------------------------------------------------------
(* Bounds of the model *)

MaxProviders == 2
MaxTextLen == 4

----------------------------------------------------------------------------
(* Class constants *)

DEFAULT_TOKEN_LIMIT == 8192
FALLBACK_TOKEN_RATIO == 4

\* family keywords, spelled as character sequences
aya == <<"a","y","a">>
codellama == <<"c","o","d","e","l","l","a","m","a">>
codestral == <<"c","o","d","e","s","t","r","a","l">>
command_r == <<"c","o","m","m","a","n","d","-","r">>
dbrx == <<"d","b","r","x">>
deepseek == <<"d","e","e","p","s","e","e","k">>
falcon == <<"f","a","l","c","o","n">>
gemma == <<"g","e","m","m","a">>
granite == <<"g","r","a","n","i","t","e">>
llama == <<"l","l","a","m","a">>
mistral == <<"m","i","s","t","r","a","l">>
mixtral == <<"m","i","x","t","r","a","l">>
olmo == <<"o","l","m","o">>
phi == <<"p","h","i">>
qwen == <<"q","w","e","n">>
solar == <<"s","o","l","a","r">>
starcoder == <<"s","t","a","r","c","o","d","e","r">>
yi == <<"y","i">>

TOKENIZER_MAP ==
    { aya, codellama, codestral, command_r, dbrx, deepseek, falcon, gemma,
      granite, llama, mistral, mixtral, olmo, phi, qwen, solar, starcoder, yi }

----------------------------------------------------------------------------
(* String primitives *)

Digits == <<"0","1","2","3","4","5","6","7","8","9">>

IsDigit(ch) == \E i \in 1..10 : Digits[i] = ch

DigitVal(ch) == (CHOOSE i \in 1..10 : Digits[i] = ch) - 1

\* `ch in s`
HasChar(s, ch) == \E i \in 1..Len(s) : s[i] = ch

\* `sub in s`
Contains(s, sub) ==
    \E i \in 0..(Len(s) - Len(sub)) : SubSeq(s, i + 1, i + Len(sub)) = sub

\* index of the first ':' (0 when there is none)
FirstColon(s) ==
    IF HasChar(s, ":")
    THEN CHOOSE i \in 1..Len(s) :
            s[i] = ":" /\ \A j \in 1..(i - 1) : s[j] # ":"
    ELSE 0

\* s.split(':', 1)[0], and [1] for a string that holds a ':'
SplitHead(s) == IF HasChar(s, ":") THEN SubSeq(s, 1, FirstColon(s) - 1) ELSE s

SplitTail(s) == SubSeq(s, FirstColon(s) + 1, Len(s))

LowerCase ==
    <<"a","b","c","d","e","f","g","h","i","j","k","l","m",
      "n","o","p","q","r","s","t","u","v","w","x","y","z">>

UpperCase ==
    <<"A","B","C","D","E","F","G","H","I","J","K","L","M",
      "N","O","P","Q","R","S","T","U","V","W","X","Y","Z">>

UpperChar(ch) ==
    IF \E i \in 1..26 : LowerCase[i] = ch
    THEN UpperCase[CHOOSE i \in 1..26 : LowerCase[i] = ch]
    ELSE ch

\* str.upper()
Upper(s) == [i \in 1..Len(s) |-> UpperChar(s[i])]

IsNotK(ch) == ch # "K"

\* str.replace('K', '')
RemoveK(s) == SelectSeq(s, IsNotK)

RECURSIVE DigitsValue(_)
DigitsValue(s) ==
    IF s = <<>> THEN 0
    ELSE 10 * DigitsValue(SubSeq(s, 1, Len(s) - 1)) + DigitVal(s[Len(s)])

AllDigits(s) == Len(s) >= 1 /\ \A i \in 1..Len(s) : IsDigit(s[i])

\* whether int(s) accepts the string: an optional sign, then decimal digits
\* (the strings of the model hold no whitespace and no underscores)
IntLiteralOk(s) ==
    /\ Len(s) >= 1
    /\ IF s[1] \in {"-", "+"} THEN AllDigits(Tail(s)) ELSE AllDigits(s)

\* int(s) for an accepted string
IntLiteralValue(s) ==
    IF s[1] = "-" THEN 0 - DigitsValue(Tail(s))
    ELSE IF s[1] = "+" THEN DigitsValue(Tail(s))
    ELSE DigitsValue(s)

RECURSIVE NatToStr(_)
NatToStr(n) ==
    IF n < 10 THEN <<Digits[n + 1]>>
    ELSE NatToStr(n \div 10) \o <<Digits[(n % 10) + 1]>>

\* str(n) for an int
IntToStr(n) == IF n < 0 THEN <<"-">> \o NatToStr(0 - n) ELSE NatToStr(n)

----------------------------------------------------------------------------
(* Model identifiers used as inputs *)

latest == <<"l","a","t","e","s","t">>
tag2b == <<"2","b">>
instruct == <<"i","n","s","t","r","u","c","t">>
llama31 == llama \o <<"3",".","1">>
gpt4 == <<"g","p","t","-","4">>
phi3 == phi \o <<"-","3">>

Join(parent, tag) == parent \o <<":">> \o tag

ModelNames ==
    { Join(llama31, latest),
      Join(llama \o <<"-","3","-","8","b">>, instruct),
      Join(codellama, latest),
      Join(gemma, tag2b),
      Join(gemma, latest),
      Join(gpt4, latest),
      llama \o <<"3">>,
      <<"m","o","d","e","l","-","n","o","-","c","o","l","o","n">> }

----------------------------------------------------------------------------
(* Metadata store: provider -> parent_model -> variants -> tag -> record *)

AbsentCtx == [kind |-> "absent", num |-> 0, str |-> <<>>]
NullCtx == [kind |-> "null", num |-> 0, str |-> <<>>]
IntCtx(n) == [kind |-> "int", num |-> n, str |-> <<>>]
StrCtx(s) == [kind |-> "str", num |-> 0, str |-> s]

\* a variant object: its 'context' entry (if any) and whether it has other keys
Variant(ctx, other) == [none |-> FALSE, other |-> other, context |-> ctx]

\* what .get(tag) yields for a tag that is not there
NoTagData == [none |-> TRUE, other |-> FALSE, context |-> AbsentCtx]

ContextValues ==
    { IntCtx(0 - 1), IntCtx(0), IntCtx(128), IntCtx(1000), IntCtx(1001),
      IntCtx(8192),
      StrCtx(<<"1","2","8","K">>), StrCtx(<<"1","2","8","k">>),
      StrCtx(<<"0","K">>), StrCtx(<<"3","2">>), StrCtx(<<"N","/","A">>),
      NullCtx }

VariantRecords ==
    { Variant(c, FALSE) : c \in ContextValues }
        \cup { Variant(AbsentCtx, FALSE), Variant(AbsentCtx, TRUE) }

ModelRecord(parent, variants) == [parent_model |-> parent, variants |-> variants]

NoVariants == [t \in {} |-> NoTagData]

ProviderChoices ==
    { [p \in {} |-> ModelRecord(p, NoVariants)] }
        \cup { [p \in {gemma} |-> ModelRecord(p, NoVariants)] }
        \cup { [p \in {gemma} |-> ModelRecord(p, [t \in {tag2b} |-> v])] :
                 v \in VariantRecords }

Stores == UNION { [1..n -> ProviderChoices] : n \in 0..MaxProviders }

\* MOCK_DB_DATA of the test suite, as one provider
MockProvider ==
    [p \in {llama31, gemma, phi3} |->
        ModelRecord(p,
            IF p = llama31
            THEN [t \in {latest, <<"8","b">>} |->
                    IF t = latest
                    THEN Variant(StrCtx(<<"1","2","8","K">>), FALSE)
                    ELSE Variant(IntCtx(128), FALSE)]
            ELSE IF p = gemma
            THEN [t \in {latest, tag2b} |->
                    IF t = latest
                    THEN Variant(IntCtx(8192), FALSE)
                    ELSE Variant(StrCtx(<<"N","/","A">>), FALSE)]
            ELSE [t \in {<<"m","i","n","i">>} |-> Variant(AbsentCtx, FALSE)])]

MockDb == <<MockProvider>>

----------------------------------------------------------------------------
(* get_model_token_limit *)

\* provider_data.get(parent_name, {}).get('variants', {}).get(tag)
TagData(provider_data, parent_name, tag) ==
    IF parent_name \in DOMAIN provider_data
    THEN IF tag \in DOMAIN provider_data[parent_name].variants
         THEN provider_data[parent_name].variants[tag]
         ELSE NoTagData
    ELSE NoTagData

\* `if tag_data:` -- None and the empty object are both falsy
Truthy(tag_data) ==
    /\ ~tag_data.none
    /\ (tag_data.other \/ tag_data.context.kind # "absent")

\* tag_data.get('context', '8K')
ContextStr(tag_data) ==
    IF tag_data.context.kind = "absent" THEN StrCtx(<<"8","K">>)
    ELSE tag_data.context

\* str(context_str)
PyStr(c) ==
    CASE c.kind = "int" -> IntToStr(c.num)
      [] c.kind = "str" -> c.str
      [] OTHER -> <<"N","o","n","e">>

\* int(context_str): does not raise ValueError / TypeError
PyIntOk(c) ==
    CASE c.kind = "int" -> TRUE
      [] c.kind = "str" -> IntLiteralOk(c.str)
      [] OTHER -> FALSE

PyIntValue(c) == IF c.kind = "int" THEN c.num ELSE IntLiteralValue(c.str)

Returned(n) == [returned |-> TRUE, value |-> n]
Caught == [returned |-> FALSE, value |-> 0]

\* variant of the try block whose implicit-thousands test is `< 1000`
ParseContextStrict(context_str) ==
    LET upper == Upper(PyStr(context_str)) IN
    IF HasChar(upper, "K")
    THEN IF IntLiteralOk(RemoveK(upper))
         THEN Returned(IntLiteralValue(RemoveK(upper)) * 1024)
         ELSE Caught
    ELSE IF ~PyIntOk(context_str) THEN Caught
    ELSE IF PyIntValue(context_str) < 1000
         THEN Returned(PyIntValue(context_str) * 1024)
         ELSE Returned(PyIntValue(context_str))

\* the try block: a value for `return`, or an exception that is caught
ParseContext(context_str) ==
    LET upper == Upper(PyStr(context_str)) IN
    IF HasChar(upper, "K")
    THEN IF IntLiteralOk(RemoveK(upper))
         THEN Returned(IntLiteralValue(RemoveK(upper)) * 1024)
         ELSE Caught
    ELSE IF ~PyIntOk(context_str) THEN Caught
    ELSE IF PyIntValue(context_str) <= 1000
         THEN Returned(PyIntValue(context_str) * 1024)
         ELSE Returned(PyIntValue(context_str))

\* for provider_data in self._db.values(), from position i on
RECURSIVE ScanProviders(_, _, _, _)
ScanProviders(store, parent_name, tag, i) ==
    IF i > Len(store) THEN DEFAULT_TOKEN_LIMIT
    ELSE LET tag_data == TagData(store[i], parent_name, tag) IN
         IF Truthy(tag_data) /\ ParseContext(ContextStr(tag_data)).returned
         THEN ParseContext(ContextStr(tag_data)).value
         ELSE ScanProviders(store, parent_name, tag, i + 1)

TokenLimit(store, model_name) ==
    IF HasChar(model_name, ":")
    THEN ScanProviders(store, SplitHead(model_name), SplitTail(model_name), 1)
    ELSE DEFAULT_TOKEN_LIMIT

----------------------------------------------------------------------------
(* Tokenizer handles *)

NoTok == [kind |-> "none", dir |-> <<>>, serial |-> 0]
Tiktoken == [kind |-> "tiktoken", dir |-> <<>>, serial |-> 0]
HFTok(dir, serial) == [kind |-> "hf", dir |-> dir, serial |-> serial]

EmptyCache == [f \in {} |-> NoTok]

Threads == {1, 2}

\* texts "a", "aa", "aa ", "aa a", ... : one text per length
TextOfLen(n) == [i \in 1..n |-> IF i % 3 = 0 THEN " " ELSE "a"]

Texts == { TextOfLen(n) : n \in 0..MaxTextLen }

\* the default engine's encode(text, disallowed_special=()): the engine is
\* third-party; it is stood for by a word splitter (a token starts at the
\* first character and at every space), so "aa a" is two tokens
TiktokenEncode(text) ==
    SelectSeq([i \in 1..Len(text) |-> IF i = 1 \/ text[i] = " " THEN "t" ELSE ""],
              LAMBDA x : x = "t")

\* a family engine's encode(text, add_special_tokens=...): stood for by one
\* token per character, preceded by a begin-of-text token when special
\* tokens are added
HFEncode(tokenizer, text, add_special_tokens) ==
    (IF add_special_tokens THEN <<"<s>">> ELSE <<>>) \o text

\* an entry of the log of what one call touched
Ev(what, dir, ok) == [what |-> what, dir |-> dir, ok |-> ok]

----------------------------------------------------------------------------
(* _get_tokenizer *)

\* variant without the separator test
HasSeparatorAlways(model_name) == TRUE

\* `if ':' in model_name`
HasSeparator(model_name) == HasChar(model_name, ":")

\* for family in self.TOKENIZER_MAP: if family in family_name: ... break
\* (<<>> stands for tokenizer_dir_name = None)
RECURSIVE FirstMatch(_, _, _)
FirstMatch(order, family_name, i) ==
    IF i > Len(order) THEN <<>>
    ELSE IF Contains(family_name, order[i]) THEN order[i]
    ELSE FirstMatch(order, family_name, i + 1)

DetectFamily(order, family_name) == FirstMatch(order, family_name, 1)

\* variant whose cache test never succeeds
CacheNeverHit(c, dir) == FALSE

\* `if tokenizer_dir_name in self._tokenizer_cache`
CacheHit(c, dir) == dir \in DOMAIN c

\* variant that rebuilds the cache around the new entry
CachePutOnly(c, dir, tokenizer) == [k \in {dir} |-> tokenizer]

\* variant that keeps an entry already present (setdefault)
CachePutIfAbsent(c, dir, tokenizer) ==
    [k \in (DOMAIN c) \cup {dir} |-> IF k \in DOMAIN c THEN c[k] ELSE tokenizer]

\* self._tokenizer_cache[tokenizer_dir_name] = tokenizer
CachePut(c, dir, tokenizer) ==
    [k \in (DOMAIN c) \cup {dir} |-> IF k = dir THEN tokenizer ELSE c[k]]

\* variant that remembers the failure by caching the fallback
CacheFailureMarker(c, dir, fallback) ==
    [k \in (DOMAIN c) \cup {dir} |-> IF k = dir THEN fallback ELSE c[k]]

\* the cache after a load that did not happen or raised: nothing is stored
CacheAfterFailure(c, dir, fallback) == c

Resolution(tokenizer, c, ld, ev) ==
    [tokenizer |-> tokenizer, cache |-> c, loaded |-> ld, events |-> ev]

\* one run of _get_tokenizer from cache c; path_exists and load_ok are what
\* os.path.exists and AutoTokenizer.from_pretrained answer during this run
GetTokenizer(c, ld, model_name, path_exists, load_ok) ==
    IF ~HasSeparator(model_name)
    THEN Resolution(defaultTok, c, ld, {})
    ELSE
      LET dir == DetectFamily(scanOrder, SplitHead(model_name))
          found == Ev("detect", dir, dir # <<>>)
      IN
      IF dir = <<>> THEN Resolution(defaultTok, c, ld, {found})
      ELSE IF CacheHit(c, dir)
      THEN Resolution(c[dir], c, ld, {found, Ev("cache", dir, TRUE)})
      ELSE IF ~path_exists
      THEN Resolution(defaultTok, CacheAfterFailure(c, dir, defaultTok), ld,
                      {found, Ev("cache", dir, FALSE), Ev("exists", dir, FALSE)})
      ELSE IF ~load_ok
      THEN Resolution(defaultTok, CacheAfterFailure(c, dir, defaultTok), ld,
                      {found, Ev("cache", dir, FALSE), Ev("exists", dir, TRUE),
                       Ev("load", dir, FALSE)})
      ELSE
        LET tokenizer == HFTok(dir, ld[dir] + 1) IN
        Resolution(tokenizer, CachePut(c, dir, tokenizer),
                   [ld EXCEPT ![dir] = @ + 1],
                   {found, Ev("cache", dir, FALSE), Ev("exists", dir, TRUE),
                    Ev("load", dir, TRUE), Ev("write", dir, TRUE)})

----------------------------------------------------------------------------
(* count_tokens dispatch *)

\* variant without the default-engine branch
TokenCountNoDefaultTier(tokenizer, text) ==
    IF tokenizer.kind = "hf" THEN Len(HFEncode(tokenizer, text, FALSE))
    ELSE Len(text) \div FALLBACK_TOKEN_RATIO

TokenCount(tokenizer, text) ==
    IF tokenizer.kind = "tiktoken" THEN Len(TiktokenEncode(text))
    ELSE IF tokenizer.kind = "hf" THEN Len(HFEncode(tokenizer, text, FALSE))
    ELSE Len(text) \div FALLBACK_TOKEN_RATIO

----------------------------------------------------------------------------
(* Operations, one public call per step *)

GetModelTokenLimit(model_name) ==
    /\ op' = "limit"
    /\ arg' = model_name
    /\ txt' = <<>>
    /\ ret' = TokenLimit(db, model_name)
    /\ resolved' = NoTok
    /\ events' = IF HasChar(model_name, ":")
                  THEN {Ev("store", <<>>, TRUE)} ELSE {}
    /\ UNCHANGED <<db, scanOrder, defaultTok, cache, loaded, writes,
                   pc, tname, ttext, tfam, ttok, tret>>

BaseOrder ==
    << aya, codellama, codestral, command_r, dbrx, deepseek, falcon, gemma,
       granite, llama, mistral, mixtral, olmo, phi, qwen, solar, starcoder, yi >>

InitCommon ==
    /\ cache = EmptyCache
    /\ loaded = [f \in TOKENIZER_MAP |-> 0]
    /\ writes = [f \in TOKENIZER_MAP |-> 0]
    /\ op = "init"
    /\ arg = <<>>
    /\ txt = <<>>
    /\ ret = 0
    /\ resolved = NoTok
    /\ events = {}
    /\ pc = [t \in Threads |-> "idle"]
    /\ tname = [t \in Threads |-> <<>>]
    /\ ttext = [t \in Threads |-> <<>>]
    /\ tfam = [t \in Threads |-> <<>>]
    /\ ttok = [t \in Threads |-> NoTok]
    /\ tret = [t \in Threads |-> 0]

(* Context lookups over every bounded store *)
InitLimit ==
    /\ db \in Stores
    /\ scanOrder = BaseOrder
    /\ defaultTok = Tiktoken
    /\ InitCommon

NextLimit == \E m \in ModelNames : GetModelTokenLimit(m)

SpecLimit == InitLimit /\ [][NextLimit]_vars

CountTokens(text, model_name, path_exists, load_ok) ==
    \E g \in {GetTokenizer(cache, loaded, model_name, path_exists, load_ok)} :
    /\ op' = "count"
    /\ arg' = model_name
    /\ txt' = text
    /\ resolved' = g.tokenizer
    /\ cache' = g.cache
    /\ loaded' = g.loaded
    /\ writes' = [f \in TOKENIZER_MAP |->
                    IF Ev("write", f, TRUE) \in g.events
                    THEN writes[f] + 1 ELSE writes[f]]
    /\ events' = g.events
    /\ ret' = TokenCount(g.tokenizer, text)
    /\ UNCHANGED <<db, scanOrder, defaultTok, pc, tname, ttext, tfam, ttok, tret>>

RECURSIVE ReverseSeq(_)
ReverseSeq(s) == IF s = <<>> THEN <<>> ELSE ReverseSeq(Tail(s)) \o <<Head(s)>>

\* a set has no defined iteration order: both directions of the listing
ScanOrders == { BaseOrder, ReverseSeq(BaseOrder) }

(* Single-threaded use: any sequence of public calls on one instance *)
Init ==
    /\ db = MockDb
    /\ scanOrder \in ScanOrders
    /\ defaultTok \in {Tiktoken, NoTok}
    /\ InitCommon

Next ==
    \/ \E text \in Texts, m \in ModelNames, path_exists \in BOOLEAN :
          \E load_ok \in (IF path_exists THEN BOOLEAN ELSE {FALSE}) :
              CountTokens(text, m, path_exists, load_ok)
    \/ \E m \in ModelNames : GetModelTokenLimit(m)

Spec == Init /\ [][Next]_vars

----------------------------------------------------------------------------
(* Properties of get_model_token_limit, checked under SpecLimit *)

\* positions of the providers that hold the parent+tag pair
Holders(store, parent_name, tag) ==
    { i \in 1..Len(store) :
        /\ parent_name \in DOMAIN store[i]
        /\ tag \in DOMAIN store[i][parent_name].variants }

FirstHolder(store, parent_name, tag) ==
    CHOOSE i \in Holders(store, parent_name, tag) :
        \A j \in Holders(store, parent_name, tag) : i <= j

\* digits followed by one K or k
IsThousands(str) ==
    /\ Len(str) >= 2
    /\ str[Len(str)] \in {"K", "k"}
    /\ AllDigits(SubSeq(str, 1, Len(str) - 1))

NoDigit(str) == \A i \in 1..Len(str) : ~IsDigit(str[i])

LimitQuery == op = "limit" /\ HasChar(arg, ":")

C2_SingleHolderLimit ==
    LimitQuery =>
        LET held == Holders(db, SplitHead(arg), SplitTail(arg)) IN
        /\ held = {} => ret = 8192
        /\ Cardinality(held) = 1 =>
            LET i == CHOOSE j \in held : TRUE
                c == db[i][SplitHead(arg)].variants[SplitTail(arg)].context
            IN
            /\ (c.kind = "str" /\ IsThousands(c.str)) =>
                  ret = DigitsValue(SubSeq(c.str, 1, Len(c.str) - 1)) * 1024
            /\ (c.kind = "int" /\ c.num <= 1000) => ret = c.num * 1024
            /\ (c.kind = "int" /\ c.num > 1000) => ret = c.num
            /\ (c.kind = "str" /\ NoDigit(c.str)) => ret = 8192
            /\ c.kind = "absent" => ret = 8192

\* the boundary value 1000 held by the second of two providers only
C2_Witness ==
    /\ LimitQuery
    /\ Len(db) = 2
    /\ Holders(db, SplitHead(arg), SplitTail(arg)) = {2}
    /\ db[2][SplitHead(arg)].variants[SplitTail(arg)].context = IntCtx(1000)
    /\ ret = 1024000

\* C3: get_model_token_limit always returns a positive integer, whatever
\* the identifier and the store content (contexts 0, "0K", negatives).
C3_LimitPositive == op = "limit" => ret > 0

----------------------------------------------------------------------------
(* Properties of the tokenizer resolver, checked under Spec *)

CountCall == op = "count"

\* the family the resolver detects for an identifier (<<>>: none)
DetectedFor(model_name) ==
    IF HasChar(model_name, ":")
    THEN DetectFamily(scanOrder, SplitHead(model_name))
    ELSE <<>>

DiskEvents(ev) == { e \in ev : e.what \in {"exists", "load", "write"} }

\* C4: the count is the family tokenizer's encoding length (no special
\* tokens) when one is resolved, the default engine's encoding length when
\* the default is resolved, and floor(len(text)/4) only when resolution
\* yields no tokenizer, which happens only if the default engine is missing.
C4_TierSelection ==
    CountCall =>
        /\ resolved.kind = "hf" => ret = Len(HFEncode(resolved, txt, FALSE))
        /\ resolved.kind = "tiktoken" => ret = Len(TiktokenEncode(txt))
        /\ resolved.kind = "none" =>
              (ret = Len(txt) \div 4 /\ defaultTok = NoTok)
        /\ defaultTok # NoTok => resolved # NoTok

\* the three tiers give three different counts for the text "aa a"
C4_Witness ==
    /\ CountCall
    /\ txt = TextOfLen(4)
    /\ resolved = Tiktoken
    /\ ret = 2
    /\ cache # EmptyCache

\* C5: once a load for a family has succeeded, every later call for an
\* identifier of that family returns the cached instance with no filesystem
\* check and no further load; a family is loaded at most once.
C5_CachedFamilyNeverReloads ==
    /\ [](\A f \in TOKENIZER_MAP : loaded[f] <= 1)
    /\ [][\A f \in DOMAIN cache :
            (op' = "count" /\ DetectedFor(arg') = f) =>
                /\ resolved' = cache[f]
                /\ loaded' = loaded
                /\ DiskEvents(events') = {}]_vars

\* the second identifier of the caching test, served from the cache
C5_Witness ==
    /\ CountCall
    /\ arg = Join(llama \o <<"-","3","-","8","b">>, instruct)
    /\ Ev("cache", llama, TRUE) \in events
    /\ resolved = HFTok(llama, 1)
    /\ loaded[llama] = 1

\* C6: for every keyword k, resolving "k:t" while k is uncached and its
\* bundled path exists loads from tokenizers/k, whatever the iteration
\* order of the keyword set.
C6_KeywordRoutesToOwnPath ==
    (CountCall /\ HasChar(arg, ":") /\ SplitHead(arg) \in TOKENIZER_MAP) =>
        \A e \in events : e.what = "load" => e.dir = SplitHead(arg)

\* C7: an identifier without ':' gets 8192 without a store lookup, and is
\* counted with the default engine or the heuristic: no family detection,
\* no filesystem check, no load, and the cache is left unchanged.
C7_NoSeparatorTakesDefaults ==
    /\ []((op \in {"count", "limit"} /\ ~HasChar(arg, ":")) =>
            /\ events = {}
            /\ op = "limit" => ret = 8192
            /\ op = "count" =>
                  /\ resolved = defaultTok
                  /\ ret = IF defaultTok = NoTok
                           THEN Len(txt) \div 4
                           ELSE Len(TiktokenEncode(txt)))
    /\ [][(op' \in {"count", "limit"} /\ ~HasChar(arg', ":")) =>
            (cache' = cache /\ loaded' = loaded)]_vars

\* "llama3" counted while the llama tokenizer is cached
C7_Witness ==
    /\ CountCall
    /\ arg = llama \o <<"3">>
    /\ llama \in DOMAIN cache
    /\ resolved = Tiktoken
    /\ txt = TextOfLen(4)

\* C8: when resolution for a detected, uncached family fails (path missing
\* or instantiation raises) the call returns the default tokenizer's count
\* and the cache is unchanged; a call for an uncached family always makes
\* the filesystem check, and the load attempt when the path exists.
C8_FailedLoadNotCached ==
    [][op' = "count" =>
        /\ (\E e \in events' : e.what \in {"exists", "load"} /\ ~e.ok) =>
              /\ cache' = cache
              /\ resolved' = defaultTok
              /\ ret' = TokenCount(defaultTok, txt')
        /\ LET f == DetectedFor(arg') IN
           (f # <<>> /\ f \notin DOMAIN cache) =>
              /\ \E e \in events' : e.what = "exists" /\ e.dir = f
              /\ Ev("exists", f, TRUE) \in events' =>
                    \E e \in events' : e.what = "load" /\ e.dir = f]_vars

\* a load that raised, after which the family is still uncached
C8_Witness ==
    /\ CountCall
    /\ Ev("load", llama, FALSE) \in events
    /\ llama \notin DOMAIN cache
    /\ resolved = defaultTok

\* C10: the cache starts empty; its keys are known families; the value
\* under f is a tokenizer instantiated from f's bundled path; an entry is
\* never removed or replaced; get_model_token_limit never changes the cache.
C10_CacheInvariant ==
    /\ cache = EmptyCache
    /\ [](\A f \in DOMAIN cache :
            f \in TOKENIZER_MAP /\ cache[f].kind = "hf" /\ cache[f].dir = f)
    /\ [][\A f \in DOMAIN cache : f \in DOMAIN cache' /\ cache'[f] = cache[f]]_vars
    /\ [][op' = "limit" => cache' = cache]_vars

\* a limit lookup made while two families are cached
C10_Witness ==
    /\ op = "limit"
    /\ DOMAIN cache = {llama, gemma}
    /\ cache[gemma] = HFTok(gemma, 1)

----------------------------------------------------------------------------
(* Two threads inside count_tokens on one instance, one statement group   *)
(* per step; nothing in _get_tokenizer takes a lock.                      *)

Locals(t, at, model_name, text, dir, tokenizer) ==
    /\ pc' = [pc EXCEPT ![t] = at]
    /\ tname' = [tname EXCEPT ![t] = model_name]
    /\ ttext' = [ttext EXCEPT ![t] = text]
    /\ tfam' = [tfam EXCEPT ![t] = dir]
    /\ ttok' = [ttok EXCEPT ![t] = tokenizer]

Shared == <<db, scanOrder, defaultTok, op, arg, txt, ret, resolved, events>>

\* lines 49-59: entry, family detection
ThreadCall(t, text, model_name) ==
    /\ pc[t] = "idle"
    /\ \E dir \in {IF HasSeparator(model_name)
                   THEN DetectFamily(scanOrder, SplitHead(model_name))
                   ELSE <<>>} :
          IF dir = <<>>
          THEN Locals(t, "encode", model_name, text, <<>>, defaultTok)
          ELSE Locals(t, "check", model_name, text, dir, NoTok)
    /\ UNCHANGED <<Shared, cache, loaded, writes, tret>>

\* lines 61-62: cache test
ThreadCheckCache(t) ==
    /\ pc[t] = "check"
    /\ IF CacheHit(cache, tfam[t])
       THEN Locals(t, "encode", tname[t], ttext[t], tfam[t], cache[tfam[t]])
       ELSE Locals(t, "exists", tname[t], ttext[t], tfam[t], NoTok)
    /\ UNCHANGED <<Shared, cache, loaded, writes, tret>>

\* lines 65-68: os.path.exists(tokenizer_path)
ThreadPathExists(t) ==
    /\ pc[t] = "exists"
    /\ \E path_exists \in BOOLEAN :
          IF path_exists
          THEN Locals(t, "load", tname[t], ttext[t], tfam[t], NoTok)
          ELSE Locals(t, "encode", tname[t], ttext[t], tfam[t], defaultTok)
    /\ UNCHANGED <<Shared, cache, loaded, writes, tret>>

\* line 69 (and 73-76 when it raises): AutoTokenizer.from_pretrained
ThreadLoad(t) ==
    /\ pc[t] = "load"
    /\ \E load_ok \in BOOLEAN :
          IF load_ok
          THEN /\ Locals(t, "store", tname[t], ttext[t], tfam[t],
                         HFTok(tfam[t], loaded[tfam[t]] + 1))
               /\ loaded' = [loaded EXCEPT ![tfam[t]] = @ + 1]
               /\ cache' = cache
          ELSE /\ Locals(t, "encode", tname[t], ttext[t], tfam[t], defaultTok)
               /\ loaded' = loaded
               /\ cache' = CacheAfterFailure(cache, tfam[t], defaultTok)
    /\ UNCHANGED <<Shared, writes, tret>>

\* lines 70-71: the cache assignment
ThreadStore(t) ==
    /\ pc[t] = "store"
    /\ cache' = CachePut(cache, tfam[t], ttok[t])
    /\ writes' = [writes EXCEPT ![tfam[t]] = @ + 1]
    /\ Locals(t, "encode", tname[t], ttext[t], tfam[t], ttok[t])
    /\ UNCHANGED <<Shared, loaded, tret>>

\* lines 83-89: encode and return
ThreadReturn(t) ==
    /\ pc[t] = "encode"
    /\ tret' = [tret EXCEPT ![t] = TokenCount(ttok[t], ttext[t])]
    /\ Locals(t, "idle", <<>>, <<>>, <<>>, NoTok)
    /\ UNCHANGED <<Shared, cache, loaded, writes>>

\* identifiers the threads call with: two of one family, one of another,
\* one without a separator
ConcNames ==
    { Join(llama31, latest),
      Join(llama \o <<"-","3","-","8","b">>, instruct),
      Join(gemma, tag2b),
      llama \o <<"3">> }

InitConc ==
    /\ db = MockDb
    /\ scanOrder = BaseOrder
    /\ defaultTok \in {Tiktoken, NoTok}
    /\ InitCommon

NextConc ==
    \E t \in Threads :
        \/ \E m \in ConcNames : ThreadCall(t, TextOfLen(MaxTextLen), m)
        \/ ThreadCheckCache(t)
        \/ ThreadPathExists(t)
        \/ ThreadLoad(t)
        \/ ThreadStore(t)
        \/ ThreadReturn(t)

SpecConc == InitConc /\ [][NextConc]_vars

\* C9: the check / load / populate sequence is unguarded: a thread that saw
\* a miss and loaded always performs its own cache assignment, replacing
\* whatever another thread stored in the meantime, and a family can be
\* loaded once per thread.
C9_UnguardedCacheWrite ==
    /\ [](\A f \in TOKENIZER_MAP : loaded[f] <= Cardinality(Threads))
    /\ [][\A t \in Threads :
            (pc[t] = "store" /\ pc'[t] = "encode") =>
                /\ cache'[tfam[t]] = ttok[t]
                /\ writes'[tfam[t]] = writes[tfam[t]] + 1]_vars

\* both threads missed, both loaded, and the second assignment replaced
\* the first: two loads and two writes for one family
C9_Witness ==
    /\ pc[1] = "encode" /\ pc[2] = "encode"
    /\ tfam[1] = llama /\ tfam[2] = llama
    /\ tname[1] # tname[2]
    /\ ttok[1].kind = "hf" /\ ttok[2].kind = "hf" /\ ttok[1] # ttok[2]
    /\ loaded[llama] = 2
    /\ writes[llama] = 2
    /\ cache[llama] \in {ttok[1], ttok[2]}

====
